---------------------------- MODULE Spec2Model ----------------------------
(***************************************************************************)
(* Model of src/index.js: the /parse request handler, the page retrieval   *)
(* (browser launch, page setup, navigation with one fallback), the block   *)
(* collector, the two extractors parseFromBlocks and parseFromHTML, the    *)
(* merge and the diagnostic response.                                      *)
(*                                                                         *)
(* Text is modelled at the granularity the three regular expressions see:  *)
(* a text is a sequence of tokens, each one a QuestionId marker, an        *)
(* "Option <ord> ID <id>" phrase, a ChosenOption marker or a plain word,   *)
(* followed by `pad` characters of marker-free, digit-free filler.         *)
(* Identifiers, ordinals and words are sequences of characters, so that    *)
(* string comparison ("02" vs "2") and the scan for a run of digits are    *)
(* computed and not tabulated.  Offsets are token indexes.  Question       *)
(* identifiers are ordinary property names (not "__proto__").              *)
(***************************************************************************)
EXTENDS Integers, Sequences, FiniteSets, TLC

VARIABLES
    pc,                \* position of the request: idle, launch, setup, goto1, goto2, loaded, closing, catch, responded
    url,               \* req.query.url: "missing", "invalid" (new URL throws) or "valid"
    debug,             \* the debug flag computed by the handler
    browser,           \* the browser session: "none", "open", "closed"
    navAttempts,       \* number of page.goto calls made by safeGoto
    status,            \* resp ? resp.status() : 0
    fullHtml,          \* page.content()
    bodyText,          \* document.body.innerText
    candidateBlocks,   \* the collected blocks
    parsedFromBlocks,  \* result map of parseFromBlocks
    parsedFromHtml,    \* result map of parseFromHTML
    segValues,         \* the values parseFromHTML assigned, one per QuestionId occurrence, in scan order
    merged,            \* Object.assign({}, parsedFromHtml, parsedFromBlocks)
    err,               \* the error that was thrown, "" if none
    response           \* what the handler sent

vars == <<pc, url, debug, browser, navAttempts, status, fullHtml, bodyText,
          candidateBlocks, parsedFromBlocks, parsedFromHtml, segValues,
          merged, err, response>>

---------------------------------------------------------------------------
(* Bounds of the model and constants of the program *)

MaxToks == 3           \* tokens in the text of an extraction input
MaxMergeHtmlToks == 3  \* tokens in the markup of a merge input
MaxMergeBlockToks == 2 \* tokens in all the blocks of a merge input together
Over == 1              \* how far a diagnostic input exceeds a cap

MinIdDigits == 6       \* /([0-9]{6,})/
MaxBlocks == 300       \* .slice(0, 300)
ShortLen == 800        \* txt.length < 800
MaxDiagBlocks == 60    \* candidateBlocks.slice(0,60)
MaxSnippet == 15000    \* .slice(0,15000)

---------------------------------------------------------------------------
(* Values *)

\* JavaScript null (also what `x || null` makes of an empty string)
NULL == <<>>

\* the empty object {}
EmptyMap == <<>>

\* obj[k] = v
Put(m, k, v) == [x \in (DOMAIN m) \cup {k} |-> IF x = k THEN v ELSE m[x]]

Min(a, b) == IF a <= b THEN a ELSE b

IsDigit(c) == c \in {"0", "1", "2", "3", "4", "5", "6", "7", "8", "9"}

\* the tokens
QTok(id) == [k |-> "Q", id |-> id]
OTok(ord, id) == [k |-> "O", ord |-> ord, id |-> id]
CTok(num) == [k |-> "C", num |-> num]
WTok(v) == [k |-> "W", v |-> v]

\* a text: its tokens and the length of its trailing filler
Text(toks, pad) == [toks |-> toks, pad |-> pad]

EmptyText == Text(<<>>, 0)

\* the character strings of a token that can hold digits, in textual order
Fields(t) ==
    CASE t.k = "Q" -> <<t.id>>
      [] t.k = "O" -> <<t.ord, t.id>>
      [] t.k = "C" -> <<t.num>>
      [] OTHER -> <<t.v>>

\* the number of characters of a token in the canonical spelling
\* "Question ID: x", "Option n ID: x", "Chosen Option: n"
TokLen(t) ==
    CASE t.k = "Q" -> 13 + Len(t.id)
      [] t.k = "O" -> 7 + Len(t.ord) + 5 + Len(t.id)
      [] t.k = "C" -> 15 + Len(t.num)
      [] OTHER -> Len(t.v)

RECURSIVE ToksLen(_)
ToksLen(toks) ==
    IF toks = <<>> THEN 0 ELSE TokLen(Head(toks)) + 1 + ToksLen(Tail(toks))

\* txt.length
TextLen(t) == ToksLen(t.toks) + t.pad

\* s.slice(0, n) of a text: the prefix of that many characters
Snippet(t, n) == [of |-> t, len |-> Min(TextLen(t), n)]

---------------------------------------------------------------------------
(* The pattern matcher *)

\* qidRe matches at this token
IsQuestionMarker(t) == t.k = "Q"

\* optRe matches at this token: the ordinal is [1-9][0-9]?
IsOptionMarker(t) ==
    /\ t.k = "O"
    /\ Len(t.ord) \in {1, 2}
    /\ IsDigit(t.ord[1]) /\ t.ord[1] # "0"
    /\ \A i \in 1..Len(t.ord) : IsDigit(t.ord[i])

\* chosenRe matches at this token
IsChosenMarker(t) == t.k = "C"

\* /Question\s*ID|Chosen\s*Option|Option\s*\d+\s*ID/i.test(txt)
HasKeyword(toks) == \E i \in 1..Len(toks) : toks[i].k \in {"Q", "O", "C"}

\* the length of the run of digits that starts at position i of cs
DigitRunLen(cs, i) ==
    Cardinality({n \in 1..(Len(cs) - i + 1) : \A j \in i..(i + n - 1) : IsDigit(cs[j])})

\* /([0-9]{6,})/.exec on one string: the leftmost run of 6 or more digits, whole
LongRun(cs) ==
    LET starts == {i \in 1..Len(cs) : DigitRunLen(cs, i) >= MinIdDigits}
    IN  IF starts = {} THEN NULL
        ELSE LET i == CHOOSE x \in starts : \A y \in starts : x <= y
             IN  SubSeq(cs, i, i + DigitRunLen(cs, i) - 1)

RECURSIVE FieldsOf(_)
FieldsOf(toks) ==
    IF toks = <<>> THEN <<>> ELSE Fields(Head(toks)) \o FieldsOf(Tail(toks))

\* /([0-9]{6,})/.exec(block): the first long run of digits of the block, or null
FirstLongRun(toks) ==
    LET fs == FieldsOf(toks)
        hits == {i \in 1..Len(fs) : LongRun(fs[i]) # NULL}
    IN  IF hits = {} THEN NULL
        ELSE LongRun(fs[CHOOSE x \in hits : \A y \in hits : x <= y])

\* the position of the first match of qidRe, 0 if none
FirstQuestion(toks) ==
    LET hits == {i \in 1..Len(toks) : IsQuestionMarker(toks[i])}
    IN  IF hits = {} THEN 0 ELSE CHOOSE x \in hits : \A y \in hits : x <= y

\* the position of the first match of chosenRe, 0 if none
FirstChosen(toks) ==
    LET hits == {i \in 1..Len(toks) : IsChosenMarker(toks[i])}
    IN  IF hits = {} THEN 0 ELSE CHOOSE x \in hits : \A y \in hits : x <= y

\* while ((m = optRe.exec(block)) !== null) optMap[m[1]] = m[2]
RECURSIVE GatherOptions(_, _)
GatherOptions(toks, optMap) ==
    IF toks = <<>> THEN optMap
    ELSE GatherOptions(Tail(toks),
                       IF IsOptionMarker(Head(toks))
                       THEN Put(optMap, Head(toks).ord, Head(toks).id)
                       ELSE optMap)

\* chosenID = optMap[chosenNum] || null, for the first ChosenOption marker
Resolve(toks, optMap) ==
    LET ch == FirstChosen(toks)
    IN  IF ch # 0 /\ toks[ch].num \in DOMAIN optMap THEN optMap[toks[ch].num] ELSE NULL

\* if (!chosenID) { idm = /([0-9]{6,})/.exec(block); if (idm) chosenID = idm[1] }
Fallback(toks, chosenID) == IF chosenID = NULL THEN FirstLongRun(toks) ELSE chosenID

---------------------------------------------------------------------------
(* The block collector (runs in the page) *)

\* if (!txt) continue; if (txt.length < 800 || keyword) out.push(txt)
Collected(t) ==
    /\ TextLen(t) > 0
    /\ (TextLen(t) < ShortLen \/ HasKeyword(t.toks))

\* the ascending sequence of a set of positions
Ascending(S) ==
    [k \in 1..Cardinality(S) |-> CHOOSE i \in S : Cardinality({j \in S : j <= i}) = k]

\* Array.from(new Set(out)): the first occurrence of each text, in order
Dedupe(s) ==
    LET kept == SelectSeq([i \in 1..Len(s) |-> i],
                          LAMBDA i : \A j \in 1..(i - 1) : s[j] # s[i])
    IN  [k \in 1..Len(kept) |-> s[kept[k]]]

\* a.slice(0, n) of an array
Slice(s, n) == SubSeq(s, 1, Min(Len(s), n))

\* the candidateBlocks of a page with these element texts
CollectBlocks(nodes) == Slice(Dedupe(SelectSeq(nodes, Collected)), MaxBlocks)

---------------------------------------------------------------------------
(* parseFromBlocks *)

\* the chosen identifier computed for one block
BlockChosen(block) ==
    Fallback(block, Resolve(block, GatherOptions(block, EmptyMap)))

\* the loop body with the skip of a block without QuestionId marker lost:
\* such a block is recorded under the empty identifier
BlockStepNoSkip(out, block) ==
    LET qm == FirstQuestion(block)
    IN  Put(out, IF qm = 0 THEN <<>> ELSE block[qm].id, BlockChosen(block))

\* one iteration of the loop over the blocks
BlockStep(out, block) ==
    LET qm == FirstQuestion(block)
    IN  IF qm = 0 THEN out ELSE Put(out, block[qm].id, BlockChosen(block))

\* for (const block of blocks): the iterations over blocks[lo..hi] in order,
\* out being the map before them.  The range is evaluated in halves, and the
\* map after the left half is computed (compared with out) before the right
\* half starts, which keeps the evaluation shallow on 300 blocks.
RECURSIVE BlocksLoop(_, _, _, _)
BlocksLoop(blocks, lo, hi, out) ==
    IF lo > hi THEN out
    ELSE IF lo = hi THEN BlockStep(out, blocks[lo].toks)
         ELSE LET mid == (lo + hi) \div 2
                  left == BlocksLoop(blocks, lo, mid, out)
              IN  IF left = out
                  THEN BlocksLoop(blocks, mid + 1, hi, out)
                  ELSE BlocksLoop(blocks, mid + 1, hi, left)

parseFromBlocks(blocks) == BlocksLoop(blocks, 1, Len(blocks), EmptyMap)

---------------------------------------------------------------------------
(* parseFromHTML *)

\* the offsets of the QuestionId occurrences, in scan order
QuestionOffsets(html) ==
    Ascending({i \in 1..Len(html) : IsQuestionMarker(html[i])})

\* every segment runs to the end of the markup
SegmentEndAtEof(html, qids, i) == Len(html) + 1

\* end = (i+1 < qids.length) ? qids[i+1].idx : html.length   (exclusive)
SegmentEnd(html, qids, i) ==
    IF i + 1 <= Len(qids) THEN qids[i + 1] ELSE Len(html) + 1

\* html.slice(start, end)
Segment(html, qids, i) == SubSeq(html, qids[i], SegmentEnd(html, qids, i) - 1)

\* the chosen identifier computed for segment i
SegmentChosen(html, qids, i) ==
    LET block == Segment(html, qids, i)
    IN  Fallback(block, Resolve(block, GatherOptions(block, EmptyMap)))

\* the values assigned by the loop over the segments, in order
SegmentValues(html) ==
    LET qids == QuestionOffsets(html)
    IN  [i \in 1..Len(qids) |-> SegmentChosen(html, qids, i)]

\* the first occurrence of an identifier is kept
SegmentStepKeepFirst(out, html, qids, i) ==
    IF html[qids[i]].id \in DOMAIN out THEN out
    ELSE Put(out, html[qids[i]].id, SegmentChosen(html, qids, i))

\* out[qids[i].qid] = chosenID || null
SegmentStep(out, html, qids, i) ==
    Put(out, html[qids[i]].id, SegmentChosen(html, qids, i))

RECURSIVE SegmentsLoop(_, _, _, _)
SegmentsLoop(html, qids, i, out) ==
    IF i > Len(qids) THEN out
    ELSE SegmentsLoop(html, qids, i + 1, SegmentStep(out, html, qids, i))

parseFromHTML(html) == SegmentsLoop(html, QuestionOffsets(html), 1, EmptyMap)

---------------------------------------------------------------------------
(* The merge *)

\* Object.assign({}, parsedFromBlocks, parsedFromHtml): the html scan wins
MergeHtmlWins(fromHtml, fromBlocks) ==
    [q \in (DOMAIN fromHtml) \cup (DOMAIN fromBlocks) |->
        IF q \in DOMAIN fromHtml THEN fromHtml[q] ELSE fromBlocks[q]]

\* Object.assign({}, parsedFromHtml, parsedFromBlocks)
Merge(fromHtml, fromBlocks) ==
    [q \in (DOMAIN fromHtml) \cup (DOMAIN fromBlocks) |->
        IF q \in DOMAIN fromBlocks THEN fromBlocks[q] ELSE fromHtml[q]]

---------------------------------------------------------------------------
(* The inputs: what a page can hold *)

Q1 == <<"Q", "1">>
Q2 == <<"Q", "2">>
OptA == <<"A", "1", "1", "1", "1", "1", "1">>
OptB == <<"B", "2">>
LongNum == <<"9", "9", "8", "8", "7", "7">>

Alphabet ==
    {QTok(Q1), QTok(Q2), OTok(<<"1">>, OptA), OTok(<<"2">>, OptB),
     CTok(<<"1">>), CTok(<<"0", "2">>), WTok(LongNum)}

MergeAlphabet == {QTok(Q1), QTok(Q2), WTok(LongNum)}

TokSeqs(A, n) == UNION {[1..k -> A] : k \in 0..n}

\* the token sequence s cut into blocks after the positions of cuts
Cut(s, cuts) ==
    LET ends == Ascending(cuts \cup {Len(s)})
    IN  [k \in 1..Len(ends) |->
            Text(SubSeq(s, IF k = 1 THEN 1 ELSE ends[k - 1] + 1, ends[k]), 0)]

\* a text of 1 to n tokens with a set of positions to cut it at
CutTexts(A, n) ==
    {y \in (TokSeqs(A, n) \ {<<>>}) \X SUBSET (1..(n - 1)) :
        y[2] \subseteq 1..(Len(y[1]) - 1)}

\* the lists of non-empty element texts that hold at most n tokens together
BlockLists(A, n) == {<<>>} \cup {Cut(y[1], y[2]) : y \in CutTexts(A, n)}

Page(html, body, nodes) == [html |-> html, body |-> body, nodes |-> nodes]

\* pages for the extractors: a text of at most MaxToks tokens is the markup
\* and the body text, and is spread over the elements in every way
ParseSites ==
    {Page(EmptyText, EmptyText, <<>>)}
    \cup {Page(Text(y[1], 0), Text(y[1], 0), Cut(y[1], y[2])) : y \in CutTexts(Alphabet, MaxToks)}

\* pages for the merge: markup and elements hold different texts
MergeSites ==
    {Page(Text(h, 0), EmptyText, b) :
        h \in TokSeqs(MergeAlphabet, MaxMergeHtmlToks),
        b \in BlockLists(MergeAlphabet, MaxMergeBlockToks)}

Word == WTok(<<"x">>)

\* n distinct short element texts
Filler(n) == [i \in 1..n |-> Text(<<Word>>, i)]

\* a text of n filler characters
Blob(n) == IF n = 0 THEN EmptyText ELSE Text(<<>>, n)

\* pages for the diagnostics: sizes around the caps, duplicates, an empty
\* text, a long text without and one with a keyword
DiagSites ==
    {Page(Blob(h), Blob(b), nodes) :
        h \in {0, MaxSnippet, MaxSnippet + Over},
        b \in {0, MaxSnippet, MaxSnippet + Over},
        nodes \in {Filler(n) : n \in {0, MaxDiagBlocks, MaxDiagBlocks + Over,
                                         MaxBlocks, MaxBlocks + Over}}
                  \cup {Filler(2) \o Filler(2)
                        \o <<EmptyText, Text(<<Word>>, ShortLen),
                             Text(<<QTok(Q1), WTok(LongNum)>>, ShortLen)>>}}

---------------------------------------------------------------------------
(* The request *)

NoResponse == [code |-> 0]

\* res.status(code).json({ ok:false, error })
Failure(code, e) == [code |-> code, body |-> [ok |-> FALSE, error |-> e]]

\* the diagnostic fields without their caps
ResultUncapped ==
    IF debug
    THEN [parsed |-> merged, status |-> status,
          candidateBlocksCount |-> Len(candidateBlocks),
          candidateBlocks |-> candidateBlocks,
          bodyTextSnippet |-> Snippet(bodyText, TextLen(bodyText)),
          htmlSnippet |-> Snippet(fullHtml, TextLen(fullHtml))]
    ELSE [parsed |-> merged, status |-> status]

\* the value parsePageAndReturnMap returns
Result ==
    IF debug
    THEN [parsed |-> merged, status |-> status,
          candidateBlocksCount |-> Len(candidateBlocks),
          candidateBlocks |-> Slice(candidateBlocks, MaxDiagBlocks),
          bodyTextSnippet |-> Snippet(bodyText, MaxSnippet),
          htmlSnippet |-> Snippet(fullHtml, MaxSnippet)]
    ELSE [parsed |-> merged, status |-> status]

\* res.json(Object.assign({ ok:true }, result))
Success(result) ==
    [code |-> 200,
     body |-> [f \in (DOMAIN result) \cup {"ok"} |->
                  IF f \in DOMAIN result THEN result[f] ELSE TRUE]]

Init ==
    /\ pc = "idle"
    /\ url = "missing"
    /\ debug = FALSE
    /\ browser = "none"
    /\ navAttempts = 0
    /\ status = 0
    /\ fullHtml = EmptyText
    /\ bodyText = EmptyText
    /\ candidateBlocks = <<>>
    /\ parsedFromBlocks = EmptyMap
    /\ parsedFromHtml = EmptyMap
    /\ segValues = <<>>
    /\ merged = EmptyMap
    /\ err = ""
    /\ response = NoResponse

\* GET /parse arrives; a missing url is answered at once
Request ==
    /\ pc = "idle"
    /\ \E u \in {"missing", "invalid", "valid"}, d \in {"1", "true", "0", "absent"} :
        /\ url' = u
        /\ debug' = (d \in {"1", "true"})
        /\ IF u = "missing"
           THEN /\ response' = Failure(400, "missing url")
                /\ pc' = "responded"
           ELSE /\ response' = response
                /\ pc' = "launch"
    /\ UNCHANGED <<browser, navAttempts, status, fullHtml, bodyText, candidateBlocks,
                   parsedFromBlocks, parsedFromHtml, segValues, merged, err>>

\* puppeteer.launch resolves
LaunchOk ==
    /\ pc = "launch"
    /\ browser' = "open"
    /\ pc' = "setup"
    /\ UNCHANGED <<url, debug, navAttempts, status, fullHtml, bodyText, candidateBlocks,
                   parsedFromBlocks, parsedFromHtml, segValues, merged, err, response>>

\* puppeteer.launch rejects: the handler's catch answers
LaunchFail ==
    /\ pc = "launch"
    /\ err' = "launch failed"
    /\ response' = Failure(500, err')
    /\ pc' = "responded"
    /\ UNCHANGED <<url, debug, browser, navAttempts, status, fullHtml, bodyText,
                   candidateBlocks, parsedFromBlocks, parsedFromHtml, segValues, merged>>

\* newPage, setUserAgent, setViewport, new URL(url), setExtraHTTPHeaders,
\* evaluateOnNewDocument all succeed
SetupOk ==
    /\ pc = "setup"
    /\ url = "valid"
    /\ pc' = "goto1"
    /\ UNCHANGED <<url, debug, browser, navAttempts, status, fullHtml, bodyText,
                   candidateBlocks, parsedFromBlocks, parsedFromHtml, segValues,
                   merged, err, response>>

\* one of them throws, new URL(url) on an invalid url: these statements stand
\* before the try, the exception leaves parsePageAndReturnMap as it is and
\* the handler's catch answers
SetupFail ==
    /\ pc = "setup"
    /\ \E e \in {"page setup failed"}
               \cup (IF url = "invalid" THEN {"TypeError: Invalid URL"} ELSE {}) :
        err' = e
    /\ response' = Failure(500, err')
    /\ pc' = "responded"
    /\ UNCHANGED <<url, debug, browser, navAttempts, status, fullHtml, bodyText,
                   candidateBlocks, parsedFromBlocks, parsedFromHtml, segValues, merged>>

\* safeGoto: page.goto(networkidle2) resolves
GotoOk ==
    /\ pc = "goto1"
    /\ navAttempts' = navAttempts + 1
    /\ \E st \in {200, 0} : status' = st
    /\ pc' = "loaded"
    /\ UNCHANGED <<url, debug, browser, fullHtml, bodyText, candidateBlocks,
                   parsedFromBlocks, parsedFromHtml, segValues, merged, err, response>>

\* safeGoto without the fallback: the first rejection is thrown
GotoFailNoRetry ==
    /\ pc = "goto1"
    /\ navAttempts' = navAttempts + 1
    /\ err' = "navigation failed"
    /\ pc' = "catch"
    /\ UNCHANGED <<url, debug, browser, status, fullHtml, bodyText, candidateBlocks,
                   parsedFromBlocks, parsedFromHtml, segValues, merged, response>>

\* safeGoto: page.goto(networkidle2) rejects, the fallback is tried
GotoFail ==
    /\ pc = "goto1"
    /\ navAttempts' = navAttempts + 1
    /\ pc' = "goto2"
    /\ UNCHANGED <<url, debug, browser, status, fullHtml, bodyText, candidateBlocks,
                   parsedFromBlocks, parsedFromHtml, segValues, merged, err, response>>

\* safeGoto: page.goto(domcontentloaded) resolves
FallbackOk ==
    /\ pc = "goto2"
    /\ navAttempts' = navAttempts + 1
    /\ \E st \in {200, 0} : status' = st
    /\ pc' = "loaded"
    /\ UNCHANGED <<url, debug, browser, fullHtml, bodyText, candidateBlocks,
                   parsedFromBlocks, parsedFromHtml, segValues, merged, err, response>>

\* safeGoto: page.goto(domcontentloaded) rejects too: throw e2
FallbackFail ==
    /\ pc = "goto2"
    /\ navAttempts' = navAttempts + 1
    /\ err' = "navigation failed"
    /\ pc' = "catch"
    /\ UNCHANGED <<url, debug, browser, status, fullHtml, bodyText, candidateBlocks,
                   parsedFromBlocks, parsedFromHtml, segValues, merged, response>>

\* the settle delay, page.content(), the two page.evaluate calls, both
\* extractors and the merge, on the page the site serves
Extract(site) ==
    /\ pc = "loaded"
    /\ fullHtml' = site.html
    /\ bodyText' = site.body
    /\ candidateBlocks' = CollectBlocks(site.nodes)
    /\ parsedFromBlocks' = parseFromBlocks(candidateBlocks')
    /\ parsedFromHtml' = parseFromHTML(fullHtml'.toks)
    /\ segValues' = SegmentValues(fullHtml'.toks)
    /\ merged' = Merge(parsedFromHtml', parsedFromBlocks')
    /\ pc' = "closing"
    /\ UNCHANGED <<url, debug, browser, navAttempts, status, err, response>>

\* one of the awaits between navigation and extraction rejects
ExtractFail ==
    /\ pc = "loaded"
    /\ err' = "retrieval failed"
    /\ pc' = "catch"
    /\ UNCHANGED <<url, debug, browser, navAttempts, status, fullHtml, bodyText,
                   candidateBlocks, parsedFromBlocks, parsedFromHtml, segValues,
                   merged, response>>

\* await browser.close(); return the result; the handler answers
CloseReturn ==
    /\ pc = "closing"
    /\ browser' = "closed"
    /\ response' = Success(Result)
    /\ pc' = "responded"
    /\ UNCHANGED <<url, debug, navAttempts, status, fullHtml, bodyText, candidateBlocks,
                   parsedFromBlocks, parsedFromHtml, segValues, merged, err>>

\* catch (err) { try { await browser.close() } catch (e) {} throw err }
CatchClose ==
    /\ pc = "catch"
    /\ browser' = "closed"
    /\ response' = Failure(500, err)
    /\ pc' = "responded"
    /\ UNCHANGED <<url, debug, navAttempts, status, fullHtml, bodyText, candidateBlocks,
                   parsedFromBlocks, parsedFromHtml, segValues, merged, err>>

\* every step but the extraction
Step ==
    \/ Request
    \/ LaunchOk
    \/ LaunchFail
    \/ SetupOk
    \/ SetupFail
    \/ GotoOk
    \/ GotoFail
    \/ FallbackOk
    \/ FallbackFail
    \/ ExtractFail
    \/ CloseReturn
    \/ CatchClose

Next == Step \/ (pc = "loaded" /\ \E site \in DiagSites \cup MergeSites : Extract(site))

Spec == Init /\ [][Next]_vars

NextParse == Step \/ (pc = "loaded" /\ \E site \in ParseSites : Extract(site))

SpecParse == Init /\ [][NextParse]_vars

---------------------------------------------------------------------------
(* Notions the properties are stated in *)

\* the extraction has run: its results are in the state
Extracted == pc = "closing" \/ (pc = "responded" /\ response.code = 200)

DigitValue(c) ==
    CHOOSE n \in 0..9 : <<"0", "1", "2", "3", "4", "5", "6", "7", "8", "9">>[n + 1] = c

\* the number a string of digits spells
RECURSIVE NumberOf(_)
NumberOf(ds) ==
    IF ds = <<>> THEN 0
    ELSE 10 * NumberOf(SubSeq(ds, 1, Len(ds) - 1)) + DigitValue(ds[Len(ds)])

\* the span of the first question of a block: from its QuestionId marker to
\* the next QuestionId marker, or to the end
OwnSpan(toks) ==
    LET q == FirstQuestion(toks)
        later == {i \in (q + 1)..Len(toks) : IsQuestionMarker(toks[i])}
        stop == IF later = {} THEN Len(toks) + 1
                ELSE CHOOSE x \in later : \A y \in later : x <= y
    IN  SubSeq(toks, q, stop - 1)

\* the option identifiers a span designates: those of its OptionId markers
\* whose ordinal is the ordinal of one of its ChosenOption markers
Designated(span) ==
    {span[o].id : o \in {i \in 1..Len(span) :
        /\ IsOptionMarker(span[i])
        /\ \E c \in 1..Len(span) :
              /\ IsChosenMarker(span[c])
              /\ NumberOf(span[c].num) = NumberOf(span[i].ord)}}

\* the tokens of 6 or more digits of a span that are no part of a marker
FreeLongTokens(span) ==
    {LongRun(span[i].v) : i \in {j \in 1..Len(span) : span[j].k = "W"}} \ {NULL}

\* the blocks in which a QuestionId marker is recognised
QuestionBlocks == SelectSeq(candidateBlocks, LAMBDA b : FirstQuestion(b.toks) # 0)

\* the question identifier of such a block
BlockQid(b) == b.toks[FirstQuestion(b.toks)].id

\* the last position of a sequence at which P holds (there is one)
LastWhere(n, P(_)) == CHOOSE i \in 1..n : P(i) /\ \A j \in (i + 1)..n : ~P(j)

---------------------------------------------------------------------------
(* Properties *)

\* the last block in which question identifier q is recognised
LastBlockOf(q) ==
    QuestionBlocks[LastWhere(Len(QuestionBlocks), LAMBDA k : BlockQid(QuestionBlocks[k]) = q)]

\* C1: in both extractors, a span with a QuestionId marker and, before the
\* next QuestionId marker, a ChosenOption marker whose ordinal is that of an
\* OptionId marker of the span, is recorded with the identifier of that
\* OptionId marker, whatever the number, the order and the digit spelling of
\* the markers.  (Stated for the spans that designate one identifier.)
C1_ChosenResolvesToOption ==
    Extracted =>
        LET html == fullHtml.toks
            qids == QuestionOffsets(html)
        IN  /\ \A i \in 1..Len(qids) :
                  LET span == Segment(html, qids, i)
                  IN  Cardinality(Designated(span)) = 1 => segValues[i] \in Designated(span)
            /\ \A q \in DOMAIN parsedFromBlocks :
                  LET span == OwnSpan(LastBlockOf(q).toks)
                  IN  Cardinality(Designated(span)) = 1
                          => parsedFromBlocks[q] \in Designated(span)

\* C2: in both extractors, a span with a QuestionId marker and no resolvable
\* ChosenOption marker is recorded with a token of 6 or more digits found in
\* the span outside the markers, and with null if the span has no such token.
C2_FallbackOutsideMarkers ==
    Extracted =>
        LET html == fullHtml.toks
            qids == QuestionOffsets(html)
            Expected(span, v) ==
                Designated(span) = {} =>
                    IF FreeLongTokens(span) # {} THEN v \in FreeLongTokens(span)
                    ELSE v = NULL
        IN  /\ \A i \in 1..Len(qids) : Expected(Segment(html, qids, i), segValues[i])
            /\ \A q \in DOMAIN parsedFromBlocks :
                  Expected(OwnSpan(LastBlockOf(q).toks), parsedFromBlocks[q])

\* every entry of the option table comes from an OptionId marker of the text
Scoped(table, toks) ==
    \A ord \in DOMAIN table :
        \E i \in 1..Len(toks) :
            IsOptionMarker(toks[i]) /\ toks[i].ord = ord /\ toks[i].id = table[ord]

\* the text of a block up to the second QuestionId marker: what precedes the
\* span of another question
UpToNextQuestion(toks) ==
    SubSeq(toks, 1, FirstQuestion(toks) + Len(OwnSpan(toks)) - 1)

\* C5: the option table used for a question never holds an OptionId marker
\* of another question's span, in a segment of the markup or in a block,
\* also in a block with several QuestionId markers.
C5_NoForeignOptions ==
    Extracted =>
        LET html == fullHtml.toks
            qids == QuestionOffsets(html)
        IN  /\ \A i \in 1..Len(qids) :
                  Scoped(GatherOptions(Segment(html, qids, i), EmptyMap),
                         SubSeq(html, qids[i],
                                IF i < Len(qids) THEN qids[i + 1] - 1 ELSE Len(html)))
            /\ \A k \in 1..Len(QuestionBlocks) :
                  Scoped(GatherOptions(QuestionBlocks[k].toks, EmptyMap),
                         UpToNextQuestion(QuestionBlocks[k].toks))

\* C7: once the browser session is launched, it is closed when the request
\* is answered, on every exit path.
C7_BrowserClosedOnExit ==
    (pc = "responded" /\ browser # "none") => browser = "closed"

Offsets == QuestionOffsets(fullHtml.toks)

\* the markup cut off right before the QuestionId occurrence i
Before(i) == SubSeq(fullHtml.toks, 1, Offsets[i] - 1)

\* C4: in parseFromHTML there is one value per QuestionId occurrence; the
\* value of occurrence i is the one computed when the markup ends right
\* before occurrence i+1 (nothing at or after that offset contributes); the
\* segments are non-empty, each ends where the next starts and the last one
\* ends with the markup.
C4_SegmentsDoNotLeak ==
    Extracted =>
        /\ Len(segValues) = Len(Offsets)
        /\ \A i \in 1..(Len(Offsets) - 1) :
              /\ segValues[i] = SegmentValues(Before(i + 1))[i]
              /\ Offsets[i] < SegmentEnd(fullHtml.toks, Offsets, i)
              /\ SegmentEnd(fullHtml.toks, Offsets, i) = Offsets[i + 1]
        /\ Len(Offsets) > 0 =>
              SegmentEnd(fullHtml.toks, Offsets, Len(Offsets)) = Len(fullHtml.toks) + 1

\* a question whose value would be another one if its segment ran on into
\* the next question's
C4_Witness ==
    /\ Extracted
    /\ \E i \in 1..(Len(Offsets) - 1) :
          LET toEnd == SubSeq(fullHtml.toks, Offsets[i], Len(fullHtml.toks))
          IN  /\ Fallback(toEnd, Resolve(toEnd, GatherOptions(toEnd, EmptyMap))) # NULL
              /\ segValues[i] = NULL

C8_OneFallback ==
    /\ navAttempts \in 0..2
    /\ pc = "goto1" => navAttempts = 0
    /\ pc = "goto2" => navAttempts = 1
    /\ pc \in {"loaded", "closing"} => navAttempts \in {1, 2}
    /\ err = "navigation failed" =>
          /\ navAttempts = 2
          /\ merged = EmptyMap
          /\ pc = "responded" =>
                /\ response.code = 500
                /\ DOMAIN response.body = {"ok", "error"}
                /\ response.body.ok = FALSE
                /\ response.body.error = "navigation failed"
    /\ (pc = "responded" /\ response.code = 200) => navAttempts \in {1, 2}

\* both attempts failed and the failure was answered
C8_Witness ==
    pc = "responded" /\ err = "navigation failed" /\ navAttempts = 2

C10_DiagnosticsCapped ==
    (pc = "responded" /\ response.code = 200) =>
        LET body == response.body
        IN  IF debug
            THEN /\ DOMAIN body = {"ok", "parsed", "status", "candidateBlocksCount",
                                   "candidateBlocks", "bodyTextSnippet", "htmlSnippet"}
                 /\ Len(body.candidateBlocks) <= MaxDiagBlocks
                 /\ Len(body.candidateBlocks) = Min(Len(candidateBlocks), MaxDiagBlocks)
                 /\ \A i \in 1..Len(body.candidateBlocks) :
                       body.candidateBlocks[i] = candidateBlocks[i]
                 /\ body.candidateBlocksCount = Len(candidateBlocks)
                 /\ body.candidateBlocksCount <= MaxBlocks
                 /\ body.bodyTextSnippet.of = bodyText
                 /\ body.bodyTextSnippet.len = Min(TextLen(bodyText), MaxSnippet)
                 /\ body.htmlSnippet.of = fullHtml
                 /\ body.htmlSnippet.len = Min(TextLen(fullHtml), MaxSnippet)
            ELSE DOMAIN body = {"ok", "parsed", "status"}

\* a diagnostic answer for a page over every cap
C10_Witness ==
    /\ pc = "responded" /\ response.code = 200 /\ debug
    /\ Len(candidateBlocks) = MaxBlocks
    /\ Len(response.body.candidateBlocks) = MaxDiagBlocks
    /\ TextLen(fullHtml) > MaxSnippet /\ response.body.htmlSnippet.len = MaxSnippet
    /\ TextLen(bodyText) > MaxSnippet /\ response.body.bodyTextSnippet.len = MaxSnippet

===========================================================================
